---- MODULE Spec2Model ----
(***************************************************************************)
(* A model of FlatBufferSchema (compiler/crates/schema/src/fb_schema.rs):  *)
(* the lazy decoder that resolves types and directives by name from a      *)
(* sorted binary index into the mutable schema store.                      *)
(*                                                                         *)
(* The recursion get_type -> read_type -> parse_* -> get_type is modelled  *)
(* by an explicit call stack.  One frame is one resolution call            *)
(* (get_type or get_directive) together with the read_* search and the     *)
(* parse_* decode it runs; the helpers parse_field, parse_arguments,       *)
(* parse_argument and parse_type_reference are flattened into the decode   *)
(* of the type that owns them, which keeps their order of effects and the  *)
(* way `?` (absence) and `.unwrap()` (panic) leave them.                   *)
(***************************************************************************)
EXTENDS Integers, Sequences, FiniteSets, TLC

\* ------------------------------------------------------------------ bounds

\* Largest index table of the search family of schemas.
MaxTable == 3
\* Number of nested resolution frames the call stack holds before it is exhausted.
MaxDepth == 6
\* Deepest nesting of NonNull and List wrappers in the type references of the
\* reference family.
MaxWrap == 3
\* Longest List or Object value among the default values of the value family.
MaxItems == 2
\* Width of usize in the model (64 on the real targets; every table of the model is
\* much shorter than 2^UsizeBits, as every real table is much shorter than 2^64).
UsizeBits == 4

\* ------------------------------------------------------------------ names

RECURSIVE Pow2(_)
Pow2(n) == IF n = 0 THEN 1 ELSE 2 * Pow2(n - 1)

UsizeMax == Pow2(UsizeBits) - 1

\* usize arithmetic of a build without overflow checks.
WrapUsize(x) == x % Pow2(UsizeBits)

\* The characters of a name, in their byte order.
Chars == {1, 2}

\* The strings a caller may ask for and an index may hold: one or two characters.
Names == {<<c>> : c \in Chars} \cup {<<c, d>> : c \in Chars, d \in Chars}

\* str::cmp as used by the generated key_compare_with_value: the ordering of
\* the key against the searched value, byte by byte, a proper prefix being less.
RECURSIVE KeyCompare(_, _)
KeyCompare(key, val) ==
    IF key = <<>> /\ val = <<>> THEN "Equal"
    ELSE IF key = <<>> THEN "Less"
    ELSE IF val = <<>> THEN "Greater"
    ELSE IF Head(key) < Head(val) THEN "Less"
    ELSE IF Head(key) > Head(val) THEN "Greater"
    ELSE KeyCompare(Tail(key), Tail(val))

\* Option<T>.
None == [tag |-> "None"]
Some(v) == [tag |-> "Some", v |-> v]
IsSome(r) == r.tag = "Some"

Panic == [tag |-> "Panic"]
\* No value yet: the register is empty.
NoRet == [tag |-> "NoRet"]

RECURSIVE Flatten(_)
Flatten(ss) == IF ss = <<>> THEN <<>> ELSE Head(ss) \o Flatten(Tail(ss))

\* The items collected in the reverse order.
RECURSIVE CollectOptReversed(_)
CollectOptReversed(rs) ==
    IF rs = <<>> THEN Some(<<>>)
    ELSE IF ~IsSome(Head(rs)) THEN Head(rs)
    ELSE LET rest == CollectOptReversed(Tail(rs))
         IN  IF IsSome(rest) THEN Some(rest.v \o <<Head(rs).v>>) ELSE rest

\* Iterator::collect::<Option<Vec<_>>>() over results produced in order: the
\* first result that is not Some ends the iteration and is the result.
RECURSIVE CollectOpt(_)
CollectOpt(rs) ==
    IF rs = <<>> THEN Some(<<>>)
    ELSE IF ~IsSome(Head(rs)) THEN Head(rs)
    ELSE LET rest == CollectOpt(Tail(rs))
         IN  IF IsSome(rest) THEN Some(<<Head(rs).v>> \o rest.v) ELSE rest

\* ------------------------------------------------- constant values (decode)

Digits == <<"0", "1", "2", "3", "4", "5", "6", "7", "8", "9">>
IsDigit(c) == \E i \in 1..10 : Digits[i] = c
DigitVal(c) == (CHOOSE i \in 1..10 : Digits[i] = c) - 1

RECURSIVE DigitsValue(_, _)
DigitsValue(cs, acc) ==
    IF cs = <<>> THEN acc ELSE DigitsValue(Tail(cs), acc * 10 + DigitVal(Head(cs)))

AllDigits(cs) == \A i \in 1..Len(cs) : IsDigit(cs[i])

\* A decimal mant * 10^exp in lowest terms, so that equal magnitudes are equal values.
RECURSIVE Normal(_, _)
Normal(mant, exp) ==
    IF mant = 0 THEN [mant |-> 0, exp |-> 0]
    ELSE IF mant % 10 = 0 THEN Normal(mant \div 10, exp + 1)
    ELSE [mant |-> mant, exp |-> exp]

\* The position of the first c in cs, or 0.
IndexOf(cs, c) ==
    IF \E i \in 1..Len(cs) : cs[i] = c
    THEN CHOOSE i \in 1..Len(cs) : cs[i] = c /\ \A j \in 1..(i - 1) : cs[j] # c
    ELSE 0

\* The text before the first c (all of it if there is none), and the text after it.
Before(cs, c) == IF IndexOf(cs, c) = 0 THEN cs ELSE SubSeq(cs, 1, IndexOf(cs, c) - 1)
After(cs, c) == IF IndexOf(cs, c) = 0 THEN <<>> ELSE SubSeq(cs, IndexOf(cs, c) + 1, Len(cs))

IsNegative(text) == text # <<>> /\ Head(text) = "-"
Unsigned(text) == IF text # <<>> /\ Head(text) \in {"+", "-"} THEN Tail(text) ELSE text

IntOf(negative, body) ==
    IF body = <<>> \/ ~AllDigits(body) THEN None
    ELSE IF negative THEN Some(0 - DigitsValue(body, 0))
    ELSE Some(DigitsValue(body, 0))

\* str::parse::<i64>(): an optional sign, then one or more decimal digits.
\* (The texts of the model are far too short to leave the range of i64.)
ParseInt(text) == IntOf(IsNegative(text), Unsigned(text))

\* The values of f64: a finite decimal, an infinity with its sign, not a number.
Finite(d) == [class |-> "finite", mant |-> d.mant, exp |-> d.exp]
Infinite(negative) == [class |-> "inf", mant |-> IF negative THEN 0 - 1 ELSE 1, exp |-> 0]
NaN == [class |-> "nan", mant |-> 0, exp |-> 0]

\* The text in lower case, for the letters parse::<f64>() reads.
Lower(c) ==
    CASE c = "E" -> "e" [] c = "I" -> "i" [] c = "N" -> "n" [] c = "F" -> "f"
      [] c = "A" -> "a" [] c = "T" -> "t" [] c = "Y" -> "y" [] OTHER -> c
LowerText(cs) == [i \in 1..Len(cs) |-> Lower(cs[i])]

FloatOf(negative, digits, scale, exponent) ==
    IF digits = <<>> \/ ~AllDigits(digits) \/ ~IsSome(exponent) THEN None
    ELSE Some(Finite(Normal(IF negative THEN 0 - DigitsValue(digits, 0)
                            ELSE DigitsValue(digits, 0),
                            exponent.v - scale)))

Mantissa(negative, numer, exponent) ==
    FloatOf(negative, Before(numer, ".") \o After(numer, "."), Len(After(numer, ".")),
            exponent)

Decimal(negative, body) ==
    IF body \in {<<"i", "n", "f">>, <<"i", "n", "f", "i", "n", "i", "t", "y">>}
    THEN Some(Infinite(negative))
    ELSE IF body = <<"n", "a", "n">> THEN Some(NaN)
    ELSE Mantissa(negative, Before(body, "e"),
                  IF IndexOf(body, "e") = 0 THEN Some(0) ELSE ParseInt(After(body, "e")))

\* str::parse::<f64>(): in any case of the letters, an optional sign, then inf,
\* infinity, nan, or digits with an optional point (at least one digit on one
\* side of it) and an optional exponent.  A finite value is kept as an exact
\* decimal; the rounding to binary64 is not modelled.
ParseFloat(text) == Decimal(IsNegative(text), LowerText(Unsigned(text)))

\* The text without the zeros that end its fraction.
RECURSIVE StripZeros(_)
StripZeros(text) ==
    IF IndexOf(text, ".") # 0 /\ text[Len(text)] = "0"
    THEN StripZeros(SubSeq(text, 1, Len(text) - 1)) ELSE text

\* The node with the text normalised.
FloatNodeNormalised(parsed, text) ==
    IF IsSome(parsed)
    THEN Some([kind |-> "Float", value |-> parsed.v, source_value |-> StripZeros(text)])
    ELSE Panic

IntNode(parsed) ==
    IF IsSome(parsed) THEN Some([kind |-> "Int", value |-> parsed.v]) ELSE Panic

\* get_int_node: `value.parse().unwrap()`.
get_int_node(text) == IntNode(ParseInt(text))

FloatNode(parsed, text) ==
    IF IsSome(parsed)
    THEN Some([kind |-> "Float", value |-> parsed.v, source_value |-> text])
    ELSE Panic

\* get_float_node: `value.parse::<f64>().unwrap()`, the text kept as source_value.
get_float_node(text) == FloatNode(ParseFloat(text), text)

\* parse_const_value with parse_list_value and parse_object_value: Some(value),
\* None where a `?` meets a missing part, Panic where an unwrap does.
RECURSIVE parse_const_value(_)
parse_const_value(value) ==
    CASE value.kind = "Null" -> Some([kind |-> "Null"])
      [] value.kind = "String" ->
            IF IsSome(value.string_value)
            THEN Some([kind |-> "String", value |-> value.string_value.v]) ELSE None
      [] value.kind = "Bool" -> Some([kind |-> "Boolean", value |-> value.bool_value])
      [] value.kind = "Int" ->
            IF IsSome(value.int_value) THEN get_int_node(value.int_value.v) ELSE None
      [] value.kind = "Float" ->
            IF IsSome(value.float_value) THEN get_float_node(value.float_value.v) ELSE None
      [] value.kind = "Enum" ->
            IF IsSome(value.enum_value)
            THEN Some([kind |-> "Enum", value |-> value.enum_value.v]) ELSE None
      [] value.kind = "List" ->
            IF ~IsSome(value.list_value) THEN None
            ELSE IF ~IsSome(value.list_value.v.values) THEN None
            ELSE LET vs == value.list_value.v.values.v
                     items == CollectOpt([i \in 1..Len(vs) |-> parse_const_value(vs[i])])
                 IN  IF IsSome(items) THEN Some([kind |-> "List", items |-> items.v])
                     ELSE items
      [] value.kind = "Object" ->
            IF ~IsSome(value.object_value) THEN None
            ELSE IF ~IsSome(value.object_value.v.fields) THEN None
            ELSE LET fs == value.object_value.v.fields.v
                     one(f) ==
                         IF ~IsSome(f.name) THEN None
                         ELSE IF ~IsSome(f.value) THEN None
                         ELSE LET v == parse_const_value(f.value.v)
                              IN  IF IsSome(v)
                                  THEN Some([name |-> f.name.v, value |-> v.v]) ELSE v
                     items == CollectOpt([i \in 1..Len(fs) |-> one(fs[i])])
                 IN  IF IsSome(items) THEN Some([kind |-> "Object", items |-> items.v])
                     ELSE items

\* parse_argument_value and parse_argument_values.
parse_argument_values(arguments) ==
    LET one(a) ==
            IF ~IsSome(a.name) THEN None
            ELSE IF ~IsSome(a.value) THEN None
            ELSE LET v == parse_const_value(a.value.v)
                 IN  IF IsSome(v) THEN Some([name |-> a.name.v, value |-> v.v]) ELSE v
    IN  CollectOpt([i \in 1..Len(arguments) |-> one(arguments[i])])

\* parse_directive_value and parse_directive_values, on `x.directives()`.
parse_directive_values(directives) ==
    LET one(d) ==
            IF ~IsSome(d.arguments) THEN None
            ELSE LET args == parse_argument_values(d.arguments.v)
                 IN  IF ~IsSome(args) THEN args
                     ELSE IF ~IsSome(d.name) THEN None
                     ELSE Some([name |-> d.name.v, arguments |-> args.v])
    IN  CollectOpt([i \in 1..Len(directives) |-> one(directives[i])])

\* parse_enum_value and parse_enum_values.
parse_enum_values(values) ==
    LET one(e) ==
            IF ~IsSome(e.directives) THEN None
            ELSE LET ds == parse_directive_values(e.directives.v)
                 IN  IF ~IsSome(ds) THEN ds
                     ELSE IF ~IsSome(e.value) THEN None
                     ELSE Some([value |-> e.value.v, directives |-> ds.v])
    IN  CollectOpt([i \in 1..Len(values) |-> one(values[i])])

\* ------------------------------------------------------ directive locations

\* A code of the closed enumeration FBDirectiveLocation of the binary format.
FB(variant) == <<"FBDirectiveLocation", variant>>

FBDirectiveLocations ==
    {FB("Query"), FB("Mutation"), FB("Subscription"), FB("Field"),
     FB("FragmentDefinition"), FB("FragmentSpread"), FB("InlineFragment"), FB("Schema"),
     FB("Scalar"), FB("Object"), FB("FieldDefinition"), FB("ArgumentDefinition"),
     FB("Interface"), FB("Union"), FB("Enum"), FB("EnumValue"),
     FB("InputObject"), FB("InputFieldDefinition"), FB("VariableDefinition")}

\* The mapping with the code EnumValue sent to the location Enum.
get_mapped_location_merged(location) ==
    CASE location = FB("Query") -> "Query"
      [] location = FB("Mutation") -> "Mutation"
      [] location = FB("Subscription") -> "Subscription"
      [] location = FB("Field") -> "Field"
      [] location = FB("FragmentDefinition") -> "FragmentDefinition"
      [] location = FB("FragmentSpread") -> "FragmentSpread"
      [] location = FB("InlineFragment") -> "InlineFragment"
      [] location = FB("Schema") -> "Schema"
      [] location = FB("Scalar") -> "Scalar"
      [] location = FB("Object") -> "Object"
      [] location = FB("FieldDefinition") -> "FieldDefinition"
      [] location = FB("ArgumentDefinition") -> "ArgumentDefinition"
      [] location = FB("Interface") -> "Interface"
      [] location = FB("Union") -> "Union"
      [] location = FB("Enum") -> "Enum"
      [] location = FB("EnumValue") -> "Enum"
      [] location = FB("InputObject") -> "InputObject"
      [] location = FB("InputFieldDefinition") -> "InputFieldDefinition"
      [] location = FB("VariableDefinition") -> "VariableDefinition"

\* get_mapped_location: the DirectiveLocation of a code.
get_mapped_location(location) ==
    CASE location = FB("Query") -> "Query"
      [] location = FB("Mutation") -> "Mutation"
      [] location = FB("Subscription") -> "Subscription"
      [] location = FB("Field") -> "Field"
      [] location = FB("FragmentDefinition") -> "FragmentDefinition"
      [] location = FB("FragmentSpread") -> "FragmentSpread"
      [] location = FB("InlineFragment") -> "InlineFragment"
      [] location = FB("Schema") -> "Schema"
      [] location = FB("Scalar") -> "Scalar"
      [] location = FB("Object") -> "Object"
      [] location = FB("FieldDefinition") -> "FieldDefinition"
      [] location = FB("ArgumentDefinition") -> "ArgumentDefinition"
      [] location = FB("Interface") -> "Interface"
      [] location = FB("Union") -> "Union"
      [] location = FB("Enum") -> "Enum"
      [] location = FB("EnumValue") -> "EnumValue"
      [] location = FB("InputObject") -> "InputObject"
      [] location = FB("InputFieldDefinition") -> "InputFieldDefinition"
      [] location = FB("VariableDefinition") -> "VariableDefinition"

\* ------------------------------------------- the binary schema (read only)
\* A schema is [types, directives]: the two sorted index tables, each a sequence
\* of entries [key, value], value being the Option of the record the entry points
\* to.  A record is the table of the flat buffer it stands for: every accessor
\* that the generated code returns as an Option is an Option here.

Range(f) == {f[i] : i \in DOMAIN f}

\* The record of the per-kind tables that carries the name n.
RecordOf(sch, n) == (CHOOSE e \in Range(sch.types) : e.key = n).value.v

\* The first half of parse_type_reference: the way down through `null()?` and
\* `list()?` to `named()?`; the name the reference asks get_type for, or None.
RECURSIVE NamedTarget(_)
NamedTarget(tr) ==
    CASE tr.kind = "Named" -> tr.named
      [] tr.kind = "NonNull" -> IF IsSome(tr.null) THEN NamedTarget(tr.null.v) ELSE None
      [] tr.kind = "List" -> IF IsSome(tr.list) THEN NamedTarget(tr.list.v) ELSE None

\* A NonNull directly around a NonNull collapsed into one.
RECURSIVE WrapReferenceCollapsed(_, _)
WrapReferenceCollapsed(tr, type) ==
    CASE tr.kind = "Named" -> [kind |-> "Named", type |-> type]
      [] tr.kind = "NonNull" ->
            IF tr.null.v.kind = "NonNull" THEN WrapReferenceCollapsed(tr.null.v, type)
            ELSE [kind |-> "NonNull", of |-> WrapReferenceCollapsed(tr.null.v, type)]
      [] tr.kind = "List" -> [kind |-> "List", of |-> WrapReferenceCollapsed(tr.list.v, type)]

\* The second half of parse_type_reference: the TypeReference built on the way
\* back up around the resolved type.
RECURSIVE WrapReference(_, _)
WrapReference(tr, type) ==
    CASE tr.kind = "Named" -> [kind |-> "Named", type |-> type]
      [] tr.kind = "NonNull" -> [kind |-> "NonNull", of |-> WrapReference(tr.null.v, type)]
      [] tr.kind = "List" -> [kind |-> "List", of |-> WrapReference(tr.list.v, type)]

\* ------------------------------------------------------------ decode plans
\* The statements of a parse_* function in execution order.  op is
\*   check     an accessor followed by `?`: absence ends the decode with None
\*   unwrap    an accessor followed by `.unwrap()`: absence panics
\*   const, dirvals, enumvals, locations    a pure decoder followed by `?`
\*   resolve   a nested self.get_type(target); mode says what the caller does
\*             with its result: "unwrap" (parse_type_reference), "try" (`?`, the
\*             relation loops) or "opt" (kept as Option: Field.parent_type)
\*   mk_arg, mk_args    the Argument and ArgumentDefinitions constructors
\*   add_type, add_field, attach, edge, add_directive    the schema store calls
\*   ret       `Some(Type::K(new_id))`; ret_directive  `self.schema.get_directive(..)`
\* fieldIx is the position of the field a statement of parse_field belongs to.

ICheck(ok) == [op |-> "check", ok |-> ok]
IUnwrap(ok) == [op |-> "unwrap", ok |-> ok]

\* get_fbtype_name: the name of the record behind an FBType, `.name().unwrap()`.
get_fbtype_name(sch, n) == IUnwrap(IsSome(RecordOf(sch, n).name))

\* `x.type_()?` and parse_type_reference.
TypeRefPlan(sch, type_) ==
    IF ~IsSome(type_) THEN <<ICheck(FALSE)>>
    ELSE IF ~IsSome(NamedTarget(type_.v)) THEN <<ICheck(FALSE)>>
    ELSE << get_fbtype_name(sch, NamedTarget(type_.v).v),
            [op |-> "resolve", target |-> NamedTarget(type_.v).v, mode |-> "unwrap",
             tr |-> type_.v] >>

\* parse_argument with `argument.value()?` in place of the match on it.
ArgumentPlanDefaultRequired(sch, a) ==
    <<IUnwrap(IsSome(a.name))>>
    \o (IF IsSome(a.value) THEN <<[op |-> "const", value |-> a.value.v]>>
        ELSE <<ICheck(FALSE)>>)
    \o TypeRefPlan(sch, a.type_)
    \o <<[op |-> "mk_arg", name |-> a.name, has_default |-> IsSome(a.value)]>>

\* parse_argument.
ArgumentPlan(sch, a) ==
    <<IUnwrap(IsSome(a.name))>>
    \o (IF IsSome(a.value) THEN <<[op |-> "const", value |-> a.value.v]>> ELSE <<>>)
    \o TypeRefPlan(sch, a.type_)
    \o <<[op |-> "mk_arg", name |-> a.name, has_default |-> IsSome(a.value)]>>

\* `x.arguments()?` (or `fields()?` of an input object) and parse_arguments.
ArgumentsPlan(sch, arguments) ==
    IF ~IsSome(arguments) THEN <<ICheck(FALSE)>>
    ELSE Flatten([i \in 1..Len(arguments.v) |-> ArgumentPlan(sch, arguments.v[i])])
         \o <<[op |-> "mk_args", n |-> Len(arguments.v)]>>

\* `x.directives()?` and parse_directive_values.
DirectiveValuesPlan(directives) ==
    IF ~IsSome(directives) THEN <<ICheck(FALSE)>>
    ELSE <<[op |-> "dirvals", directives |-> directives.v]>>

\* parse_field for the k-th field of its owner.
FieldPlan(sch, f, k) ==
    LET body ==
            <<ICheck(IsSome(f.name))>>
            \o ArgumentsPlan(sch, f.arguments)
            \o TypeRefPlan(sch, f.type_)
            \o DirectiveValuesPlan(f.directives)
            \o (IF ~IsSome(f.parent_type) THEN <<ICheck(FALSE)>>
                ELSE << get_fbtype_name(sch, f.parent_type.v),
                        [op |-> "resolve", target |-> f.parent_type.v, mode |-> "opt"] >>)
            \o <<[op |-> "add_field", name |-> f.name]>>
    IN  [i \in 1..Len(body) |-> [fieldIx |-> k] @@ body[i]]

\* The loop `for field_id in x.fields()?` of parse_object and parse_interface.
FieldsPlan(sch, fields, owner) ==
    IF ~IsSome(fields) THEN <<ICheck(FALSE)>>
    ELSE Flatten([k \in 1..Len(fields.v) |->
                     FieldPlan(sch, fields.v[k], k)
                     \o <<[op |-> "attach", owner |-> owner]>>])

\* One of the relation loops: for each listed record, the name of the record
\* (`.name()?`), self.get_type(name)?, the id of the expected kind
\* (`get_interface_id()?` / `get_object_id()?`) and the store call adding the edge.
EdgesPlan(sch, targets, owner, rel, want) ==
    IF ~IsSome(targets) THEN <<ICheck(FALSE)>>
    ELSE Flatten([j \in 1..Len(targets.v) |->
            << ICheck(IsSome(RecordOf(sch, targets.v[j]).name)),
               [op |-> "resolve", target |-> targets.v[j], mode |-> "try"],
               [op |-> "edge", owner |-> owner, rel |-> rel, want |-> want] >>])

parse_scalar(sch, r) ==
    <<ICheck(IsSome(r.name))>> \o DirectiveValuesPlan(r.directives)
    \o <<[op |-> "add_type", kind |-> "Scalar", name |-> r.name],
         [op |-> "ret", kind |-> "Scalar"]>>

parse_enum(sch, r) ==
    <<ICheck(IsSome(r.name))>>
    \o (IF ~IsSome(r.values) THEN <<ICheck(FALSE)>>
        ELSE <<[op |-> "enumvals", values |-> r.values.v]>>)
    \o DirectiveValuesPlan(r.directives)
    \o <<[op |-> "add_type", kind |-> "Enum", name |-> r.name],
         [op |-> "ret", kind |-> "Enum"]>>

parse_input_object(sch, r) ==
    <<ICheck(IsSome(r.name))>> \o ArgumentsPlan(sch, r.fields)
    \o DirectiveValuesPlan(r.directives)
    \o <<[op |-> "add_type", kind |-> "InputObject", name |-> r.name],
         [op |-> "ret", kind |-> "InputObject"]>>

parse_object(sch, r) ==
    <<ICheck(IsSome(r.name))>> \o DirectiveValuesPlan(r.directives)
    \o <<[op |-> "add_type", kind |-> "Object", name |-> r.name]>>
    \o FieldsPlan(sch, r.fields, "Object")
    \o EdgesPlan(sch, r.interfaces, "Object", "interfaces", "Interface")
    \o <<[op |-> "ret", kind |-> "Object"]>>

\* parse_interface without the loop over implementing_objects.
parse_interface_without_objects(sch, r) ==
    <<ICheck(IsSome(r.name))>> \o DirectiveValuesPlan(r.directives)
    \o <<[op |-> "add_type", kind |-> "Interface", name |-> r.name]>>
    \o FieldsPlan(sch, r.fields, "Interface")
    \o EdgesPlan(sch, r.interfaces, "Interface", "interfaces", "Interface")
    \o <<[op |-> "ret", kind |-> "Interface"]>>

parse_interface(sch, r) ==
    <<ICheck(IsSome(r.name))>> \o DirectiveValuesPlan(r.directives)
    \o <<[op |-> "add_type", kind |-> "Interface", name |-> r.name]>>
    \o FieldsPlan(sch, r.fields, "Interface")
    \o EdgesPlan(sch, r.interfaces, "Interface", "interfaces", "Interface")
    \o EdgesPlan(sch, r.implementing_objects, "Interface", "implementing_objects", "Object")
    \o <<[op |-> "ret", kind |-> "Interface"]>>

parse_union(sch, r) ==
    <<ICheck(IsSome(r.name))>> \o DirectiveValuesPlan(r.directives)
    \o <<[op |-> "add_type", kind |-> "Union", name |-> r.name]>>
    \o EdgesPlan(sch, r.members, "Union", "members", "Object")
    \o <<[op |-> "ret", kind |-> "Union"]>>

\* parse_type: the dispatch on the kind of the record.
parse_type(sch, r) ==
    CASE r.kind = "Scalar" -> parse_scalar(sch, r)
      [] r.kind = "InputObject" -> parse_input_object(sch, r)
      [] r.kind = "Enum" -> parse_enum(sch, r)
      [] r.kind = "Object" -> parse_object(sch, r)
      [] r.kind = "Interface" -> parse_interface(sch, r)
      [] r.kind = "Union" -> parse_union(sch, r)

parse_directive(sch, r) ==
    (IF ~IsSome(r.locations) THEN <<ICheck(FALSE)>>
     ELSE <<[op |-> "locations", locations |-> r.locations.v]>>)
    \o <<ICheck(IsSome(r.name))>>
    \o ArgumentsPlan(sch, r.arguments)
    \o <<[op |-> "add_directive", name |-> r.name, repeatable |-> r.repeatable],
         [op |-> "ret_directive", name |-> r.name]>>

\* --------------------------------------------------------- the schema store
\* The store is the collaborator `Schema`: a map from names to Type values
\* (kind and id), one arena per kind, the arena of fields and the directives.
\* An id is the position of the entity in its arena, counted from 0.

EmptyStore ==
    [type_map |-> [n \in Names |-> None], directives |-> [n \in Names |-> None],
     scalars |-> <<>>, enums |-> <<>>, input_objects |-> <<>>, objects |-> <<>>,
     interfaces |-> <<>>, unions |-> <<>>, fields |-> <<>>]

Arena(kind) ==
    CASE kind = "Scalar" -> "scalars"
      [] kind = "Enum" -> "enums"
      [] kind = "InputObject" -> "input_objects"
      [] kind = "Object" -> "objects"
      [] kind = "Interface" -> "interfaces"
      [] kind = "Union" -> "unions"

\* Schema::has_type and Schema::get_type.
has_type(s, name) == IsSome(s.type_map[name])
schema_get_type(s, name) == s.type_map[name]

\* Schema::get_directive.
schema_get_directive(s, name) == s.directives[name]

\* Schema::add_scalar ... add_union: Err for a name the store already has,
\* otherwise the entity is pushed on its arena and the name mapped to its id.
add_type(s, kind, entity) ==
    IF has_type(s, entity.name) THEN [tag |-> "Err"]
    ELSE [tag |-> "Ok", id |-> Len(s[Arena(kind)]),
          store |-> [s EXCEPT ![Arena(kind)] = Append(@, entity),
                              !.type_map[entity.name] =
                                  Some([kind |-> kind, id |-> Len(s[Arena(kind)])])]]

\* Schema::add_field: the field is pushed on the arena of fields.
add_field(s, field) ==
    [id |-> Len(s.fields), store |-> [s EXCEPT !.fields = Append(@, field)]]

\* Schema::add_field_to_object and add_field_to_interface.
add_field_to_owner(s, owner, id, field_id) ==
    [s EXCEPT ![Arena(owner)][id + 1].fields = Append(@, field_id)]

\* Schema::add_interface_to_object, add_parent_interface_to_interface,
\* add_implementing_object_to_interface and add_member_to_union.
add_edge(s, owner, id, rel, target_id) ==
    [s EXCEPT ![Arena(owner)][id + 1][rel] = Append(@, target_id)]

\* Schema::add_directive: Err for a name the store already has.
add_directive(s, directive) ==
    IF IsSome(s.directives[directive.name]) THEN [tag |-> "Err"]
    ELSE [tag |-> "Ok", store |-> [s EXCEPT !.directives[directive.name] = Some(directive)]]

\* The entity of an object handed to the store with a field already in it.
NewEntityWithField(kind, name, vals) ==
    CASE kind = "Scalar" -> [name |-> name, directives |-> vals[1]]
      [] kind = "Enum" -> [name |-> name, values |-> vals[1], directives |-> vals[2]]
      [] kind = "InputObject" -> [name |-> name, fields |-> vals[1], directives |-> vals[2]]
      [] kind = "Object" ->
            [name |-> name, fields |-> <<0>>, interfaces |-> <<>>, directives |-> vals[1]]
      [] kind = "Interface" ->
            [name |-> name, implementing_objects |-> <<>>, fields |-> <<>>,
             directives |-> vals[1], interfaces |-> <<>>]
      [] kind = "Union" -> [name |-> name, members |-> <<>>, directives |-> vals[1]]

\* The entity a parse_* function hands to the store: a single-phase kind with
\* everything decoded (vals), a two-phase kind as a stub with empty collections.
NewEntity(kind, name, vals) ==
    CASE kind = "Scalar" -> [name |-> name, directives |-> vals[1]]
      [] kind = "Enum" -> [name |-> name, values |-> vals[1], directives |-> vals[2]]
      [] kind = "InputObject" -> [name |-> name, fields |-> vals[1], directives |-> vals[2]]
      [] kind = "Object" ->
            [name |-> name, fields |-> <<>>, interfaces |-> <<>>, directives |-> vals[1]]
      [] kind = "Interface" ->
            [name |-> name, implementing_objects |-> <<>>, fields |-> <<>>,
             directives |-> vals[1], interfaces |-> <<>>]
      [] kind = "Union" -> [name |-> name, members |-> <<>>, directives |-> vals[1]]

\* ---------------------------------------------------------------- the state

VARIABLES
    schema,       \* the binary schema of the session (never changes)
    store,        \* self.schema, the schema store
    stack,        \* the resolution calls in progress, the innermost last
    ret,          \* the value the call that ended last returned, NoRet once consumed
    fault,        \* "none", or the panic or abort that ended the process
    top,          \* the top-level call in progress or ended last
    storeBefore,  \* the store when that top-level call started
    firstResult,  \* what the first top-level get_type / get_directive of Watched returned
    fieldFail     \* the first field whose decode yielded absence during that call

vars == <<schema, store, stack, ret, fault, top, storeBefore, firstResult, fieldFail>>

\* The name whose first top-level results are remembered: in the search family it
\* is absent, first, in the middle or last in the table; in the graph family it is
\* a type of every shape and the directive with an argument.
Watched == <<1, 2>>

\* A frame is one call of get_type or get_directive: phase "entry" is the cache
\* check, "search" the loop of read_type or read_directive (start, end, and mid,
\* the index probed last), "decode" the parse_* function of the record found
\* (pc, the statement to run; vals, the values decoded and not yet consumed;
\* new_id, the id the store gave the entity).
Frame(fn, name) ==
    [fn |-> fn, name |-> name, phase |-> "entry", start |-> 0, end |-> 0, mid |-> -1,
     pc |-> 0, vals |-> <<>>, new_id |-> -1]

\* No call in progress; Returned: the value of the last top-level call is in ret,
\* not yet taken by the caller.
Idle == stack = <<>> /\ fault = "none"
Returned == Idle /\ ret # NoRet
NoCall == [fn |-> "none", name |-> <<>>, repeat |-> FALSE]
Running == stack # <<>> /\ fault = "none"
Top == stack[Len(stack)]
SetTop(f) == [stack EXCEPT ![Len(stack)] = f]

\* self.types or self.directives.
Table(sch, fn) == IF fn = "get_type" THEN sch.types ELSE sch.directives

Keys(table) == {table[i].key : i \in 1..Len(table)}

\* The statements of the parse_* function the frame is in.
PlanOf(sch, f) ==
    IF f.fn = "get_type" THEN parse_type(sch, sch.types[f.mid + 1].value.v)
    ELSE parse_directive(sch, sch.directives[f.mid + 1].value.v)

Instr == PlanOf(schema, Top)[Top.pc]

\* What a step does: continue in the frame (with the store it changed), return,
\* stop in a fault, or call get_type.
EStep(f) == [do |-> "step", frame |-> f]
EStore(f, s) == [do |-> "step", frame |-> f, store |-> s]
EReturn(r) == [do |-> "return", r |-> r]
\* A `?` that met absence in statement i.
EAbsent(i) == [do |-> "return", r |-> None, instr |-> i]
EFault(reason, f) == [do |-> "fault", reason |-> reason, frame |-> f]
ECall(target) == [do |-> "call", target |-> target]

Apply(e) ==
    /\ stack' = CASE e.do = "step" -> SetTop(e.frame)
                  [] e.do = "fault" -> SetTop(e.frame)
                  [] e.do = "return" -> SubSeq(stack, 1, Len(stack) - 1)
                  [] e.do = "call" ->
                        IF Len(stack) < MaxDepth
                        THEN Append(stack, Frame("get_type", e.target)) ELSE stack
    /\ fault' = CASE e.do = "fault" -> e.reason
                  [] e.do = "call" /\ Len(stack) >= MaxDepth -> "stack_overflow"
                  [] OTHER -> fault
    /\ ret' = CASE e.do = "return" -> e.r
                [] e.do = "fault" -> ret
                [] OTHER -> NoRet
    /\ store' = IF "store" \in DOMAIN e THEN e.store ELSE store
    /\ firstResult' =
          IF /\ e.do = "return" /\ Len(stack) = 1
             /\ top.name = Watched /\ firstResult[top.fn] = NoRet
          THEN [firstResult EXCEPT ![top.fn] = e.r] ELSE firstResult
    /\ fieldFail' =
          IF /\ e.do = "return" /\ "instr" \in DOMAIN e /\ fieldFail = None
             /\ "fieldIx" \in DOMAIN e.instr
          THEN Some([owner |-> Top.name, index |-> e.instr.fieldIx]) ELSE fieldFail
    /\ UNCHANGED <<schema, top, storeBefore>>

\* ------------------------------------------------- get_type, get_directive

\* The cache is never consulted.
NeverCached(s, f) == FALSE

\* `self.schema.has_type(type_name)`, `self.schema.get_directive(name).is_none()`.
Cached(s, f) ==
    IF f.fn = "get_type" THEN has_type(s, f.name)
    ELSE IsSome(schema_get_directive(s, f.name))

\* get_type and get_directive without the look into the store.
EntryEffectWithoutStore(s, f, table) ==
    EStep([f EXCEPT !.phase = "search", !.start = 0, !.end = Len(table)])

\* get_type and get_directive: the answer of the store, or read_type / read_directive.
EntryEffect(s, f, table) ==
    IF ~Cached(s, f)
    THEN EStep([f EXCEPT !.phase = "search", !.start = 0, !.end = Len(table)])
    ELSE EReturn(IF f.fn = "get_type" THEN schema_get_type(s, f.name)
                 ELSE schema_get_directive(s, f.name))

\* The midpoint rounded up instead of down.
MidpointRoundedUp(start, end) == WrapUsize(start + end + 1) \div 2

\* `let mid = (start + end) / 2`.  (The sum can pass usize::MAX only after `end`
\* has wrapped, that is in a build without overflow checks, where it wraps too.)
Midpoint(start, end) == WrapUsize(start + end) \div 2

\* `end = mid - 1`: with mid = 0 a panic in a build with overflow checks,
\* usize::MAX in a build without.
Decrement(f, mid) ==
    IF mid = 0
    THEN {EFault("subtract_overflow", f), EStep([f EXCEPT !.end = UsizeMax])}
    ELSE {EStep([f EXCEPT !.end = mid - 1])}

\* The entry probed first taken as the entry of the name.
ComparedFirstProbe(g, mid, entry) ==
    IF IsSome(entry.value) THEN {EStep([g EXCEPT !.phase = "decode", !.pc = 1])}
    ELSE {EReturn(None)}

\* The branches for Less and Greater exchanged.
ComparedExchanged(g, mid, entry) ==
    CASE KeyCompare(entry.key, g.name) = "Equal" ->
            IF IsSome(entry.value) THEN {EStep([g EXCEPT !.phase = "decode", !.pc = 1])}
            ELSE {EReturn(None)}
      [] KeyCompare(entry.key, g.name) = "Greater" -> {EStep([g EXCEPT !.start = mid + 1])}
      [] KeyCompare(entry.key, g.name) = "Less" ->
            IF mid = 0 THEN {EFault("subtract_overflow", g)}
            ELSE {EStep([g EXCEPT !.end = mid - 1])}

\* The three branches on `key_compare_with_value(name)` for the entry probed at
\* mid; for Equal, `get(mid).value()?` and the parse of the record.
Compared(g, mid, entry) ==
    CASE KeyCompare(entry.key, g.name) = "Equal" ->
            IF IsSome(entry.value) THEN {EStep([g EXCEPT !.phase = "decode", !.pc = 1])}
            ELSE {EReturn(None)}
      [] KeyCompare(entry.key, g.name) = "Less" -> {EStep([g EXCEPT !.start = mid + 1])}
      [] KeyCompare(entry.key, g.name) = "Greater" -> Decrement(g, mid)

\* One turn of `while start <= end` in read_type / read_directive.  A probe
\* `get(mid)` with mid >= len is a read outside the vector: the bounds assertion
\* of the vector panics, or, where it is compiled out, the loop goes on over
\* whatever bytes lie there.  No key is read from them that the table holds, so a
\* search that goes on this way and does not panic later ends without a record:
\* its turns are not followed one by one, it is taken to return None.
SearchEffects(f, table) ==
    IF ~(f.start <= f.end) THEN {EReturn(None)}
    ELSE IF Midpoint(f.start, f.end) >= Len(table)
    THEN {EFault("index_out_of_range", [f EXCEPT !.mid = Midpoint(f.start, f.end)]),
          EReturn(None)}
    ELSE Compared([f EXCEPT !.mid = Midpoint(f.start, f.end)], Midpoint(f.start, f.end),
                  table[Midpoint(f.start, f.end) + 1])

\* ------------------------------------------------------ the decode statements

Advance(f) == [f EXCEPT !.pc = f.pc + 1]
Push(f, v) == [f EXCEPT !.pc = f.pc + 1, !.vals = Append(f.vals, v)]

\* An accessor and its `?` or `.unwrap()`.
CheckEffect(f, i) ==
    IF i.ok THEN EStep(Advance(f))
    ELSE IF i.op = "check" THEN EAbsent(i)
    ELSE EFault("unwrap_none", f)

\* The decoders that resolve no name.
PureResult(i) ==
    CASE i.op = "const" -> parse_const_value(i.value)
      [] i.op = "dirvals" -> parse_directive_values(i.directives)
      [] i.op = "enumvals" -> parse_enum_values(i.values)
      [] i.op = "locations" ->
            Some([k \in 1..Len(i.locations) |-> get_mapped_location(i.locations[k])])

\* Some(v): v is kept; None: the `?` ends the decode; Panic: an unwrap failed.
Decoded(f, i, r) ==
    IF IsSome(r) THEN EStep(Push(f, r.v))
    ELSE IF r = None THEN EAbsent(i)
    ELSE EFault("unwrap_err", f)

PureEffect(f, i) == Decoded(f, i, PureResult(i))

\* `Argument { name, default_value, type_ }` and `ArgumentDefinitions::new(items?)`.
BuildEffect(f, i) ==
    LET n == Len(f.vals)
    IN  IF i.op = "mk_arg"
        THEN LET used == IF i.has_default THEN 2 ELSE 1
                 arg  == [name |-> i.name.v,
                          default_value |-> IF i.has_default THEN Some(f.vals[n - 1])
                                            ELSE None,
                          type_ |-> f.vals[n]]
             IN  EStep([f EXCEPT !.pc = f.pc + 1,
                                 !.vals = Append(SubSeq(f.vals, 1, n - used), arg)])
        ELSE EStep([f EXCEPT !.pc = f.pc + 1,
                             !.vals = Append(SubSeq(f.vals, 1, n - i.n),
                                             SubSeq(f.vals, n - i.n + 1, n))])

\* `self.get_type(name)` inside a parse_* function.
ResolveEffect(f, i) == ECall(i.target)

\* What the caller does with the result r of the nested get_type.
ResumeEffect(f, i, r) ==
    CASE i.mode = "unwrap" ->
            IF IsSome(r) THEN EStep(Push(f, WrapReference(i.tr, r.v)))
            ELSE EFault("unwrap_none", f)
      [] i.mode = "try" -> IF IsSome(r) THEN EStep(Push(f, r.v)) ELSE EReturn(None)
      [] i.mode = "opt" -> EStep(Push(f, r))

\* `self.schema.add_<kind>(parsed).unwrap()`.
AddTypeEffect(s, f, i) ==
    LET res == add_type(s, i.kind, NewEntity(i.kind, i.name.v, f.vals))
    IN  IF res.tag = "Err" THEN EFault("duplicate_type", f)
        ELSE EStore([f EXCEPT !.pc = f.pc + 1, !.vals = <<>>, !.new_id = res.id],
                    res.store)

\* `Some(self.schema.add_field(parsed_field).unwrap())` at the end of parse_field.
AddFieldEffect(s, f, i) ==
    LET field == [name |-> i.name.v, arguments |-> f.vals[1], type_ |-> f.vals[2],
                  directives |-> f.vals[3], parent_type |-> f.vals[4]]
        res   == add_field(s, field)
    IN  EStore([f EXCEPT !.pc = f.pc + 1, !.vals = <<res.id>>], res.store)

\* The field attached to its owner twice.
AttachEffectTwice(s, f, i) ==
    EStore([f EXCEPT !.pc = f.pc + 1, !.vals = <<>>],
           add_field_to_owner(add_field_to_owner(s, i.owner, f.new_id, f.vals[1]),
                              i.owner, f.new_id, f.vals[1]))

\* `self.schema.add_field_to_object(new_id, field).unwrap()` (or _to_interface).
AttachEffect(s, f, i) ==
    EStore([f EXCEPT !.pc = f.pc + 1, !.vals = <<>>],
           add_field_to_owner(s, i.owner, f.new_id, f.vals[1]))

\* `x.get_interface_id()?` / `x.get_object_id()?` and the store call adding the edge.
EdgeEffect(s, f, i) ==
    IF f.vals[1].kind # i.want THEN EReturn(None)
    ELSE EStore([f EXCEPT !.pc = f.pc + 1, !.vals = <<>>],
                add_edge(s, i.owner, f.new_id, i.rel, f.vals[1].id))

\* `self.schema.add_directive(parsed_directive).unwrap()`.
AddDirectiveEffect(s, f, i) ==
    LET res == add_directive(s, [name |-> i.name.v, arguments |-> f.vals[2],
                                 locations |-> f.vals[1], repeatable |-> i.repeatable])
    IN  IF res.tag = "Err" THEN EFault("duplicate_directive", f)
        ELSE EStore([f EXCEPT !.pc = f.pc + 1, !.vals = <<>>], res.store)

\* The value a parse_* function ends with.
ReturnEffect(s, f, i) ==
    IF i.op = "ret" THEN EReturn(Some([kind |-> i.kind, id |-> f.new_id]))
    ELSE EReturn(schema_get_directive(s, i.name.v))

\* -------------------------------------------------- the schemas of the model

Named(n) == [kind |-> "Named", named |-> Some(n)]
NonNull(tr) == [kind |-> "NonNull", null |-> Some(tr)]
ListOf(tr) == [kind |-> "List", list |-> Some(tr)]

ScalarRecord(n) == [kind |-> "Scalar", name |-> Some(n), directives |-> Some(<<>>)]

DirectiveRecord(n, arguments) ==
    [name |-> Some(n), locations |-> Some(<<FB("Field"), FB("Query")>>),
     arguments |-> Some(arguments), repeatable |-> FALSE]

Entry(key, record) == [key |-> key, value |-> Some(record)]

\* The sorted tables of k entries: keys unique and strictly increasing.
RECURSIVE SortedKeys(_)
SortedKeys(k) ==
    IF k = 0 THEN {<<>>}
    ELSE {Append(p[1], p[2]) :
            p \in {q \in SortedKeys(k - 1) \X Names :
                     q[1] = <<>> \/ KeyCompare(q[1][Len(q[1])], q[2]) = "Less"}}

\* The search family: every sorted table of at most MaxTable names, as the index
\* of types (all scalars) or as the index of directives.
SearchSchemas ==
    LET tables == UNION {SortedKeys(k) : k \in 0..MaxTable}
    IN  {[types |-> [i \in 1..Len(t) |-> Entry(t[i], ScalarRecord(t[i]))],
          directives |-> <<>>] : t \in tables}
        \cup
        {[types |-> <<>>,
          directives |-> [i \in 1..Len(t) |-> Entry(t[i], DirectiveRecord(t[i], <<>>))]] :
            t \in tables}

\* The names of the graph and defect families.  tX < tY < tS in key order, and no
\* name of Names sorts before tX or after tS.
tX == <<1>>
tY == <<1, 2>>
tS == <<2, 2>>

ArgumentRecord(n, value, tr) == [name |-> Some(n), value |-> value, type_ |-> Some(tr)]

FieldRecord(n, arguments, tr, parent) ==
    [name |-> Some(n), arguments |-> Some(arguments), type_ |-> Some(tr),
     directives |-> Some(<<>>), parent_type |-> Some(parent)]

EnumRecord(n) ==
    [kind |-> "Enum", name |-> Some(n),
     values |-> Some(<<[value |-> Some(<<1>>), directives |-> Some(<<>>)]>>),
     directives |-> Some(<<>>)]

InputObjectRecord(n, fields) ==
    [kind |-> "InputObject", name |-> Some(n), fields |-> Some(fields),
     directives |-> Some(<<>>)]

ObjectRecord(n, fields, interfaces) ==
    [kind |-> "Object", name |-> Some(n), directives |-> Some(<<>>),
     fields |-> Some(fields), interfaces |-> Some(interfaces)]

InterfaceRecord(n, fields, interfaces, implementing_objects) ==
    [kind |-> "Interface", name |-> Some(n), directives |-> Some(<<>>),
     fields |-> Some(fields), interfaces |-> Some(interfaces),
     implementing_objects |-> Some(implementing_objects)]

UnionRecord(n, members) ==
    [kind |-> "Union", name |-> Some(n), directives |-> Some(<<>>),
     members |-> Some(members)]

IntValue(text) == [kind |-> "Int", int_value |-> Some(text)]

\* A list of no or one name.
Opt(ns) == {<<>>} \cup {<<n>> : n \in ns}

\* The records the type `self` may have in the graph family: every kind, its
\* references (field type, argument type, interface, parent interface,
\* implementing object, member) pointing at any of the three types; and an object
\* with a field whose parent type is tY.
Shapes(self) ==
    {EnumRecord(self)}
    \cup {InputObjectRecord(self, <<ArgumentRecord(<<1>>, None, Named(t))>>) :
            t \in {tX, tY, tS}}
    \cup {ObjectRecord(self, <<FieldRecord(<<1>>, <<>>, NonNull(Named(t)), self)>>, is) :
            t \in {tX, tY, tS}, is \in Opt({tX, tY})}
    \cup {ObjectRecord(self,
                       <<FieldRecord(<<1>>, <<ArgumentRecord(<<2>>, None, Named(t))>>,
                                     Named(tS), self)>>, <<>>) : t \in {tX, tY}}
    \cup {InterfaceRecord(self, <<FieldRecord(<<1>>, <<>>, Named(tS), self)>>, ps, os) :
            ps \in Opt({tX, tY}), os \in Opt({tX, tY})}
    \cup {UnionRecord(self, ms) : ms \in {<<tX>>, <<tY>>, <<tX, tY>>}}
    \cup {ObjectRecord(self, <<FieldRecord(<<1>>, <<>>, Named(tS), tY)>>, <<>>)}

\* The directive of the graph family: an argument of the type [tS] with a default value.
GraphDirectives ==
    << Entry(tY, DirectiveRecord(tY, <<ArgumentRecord(<<1>>, Some(IntValue(<<"1">>)),
                                                      ListOf(Named(tS)))>>)) >>

\* The records of the type `self` that refer back to the type `other` in every
\* way a record can.
Partners(self, other) ==
    { EnumRecord(self),
      InputObjectRecord(self, <<ArgumentRecord(<<1>>, None, Named(other))>>),
      ObjectRecord(self, <<FieldRecord(<<1>>, <<>>, ListOf(Named(other)), self)>>,
                   <<other>>),
      InterfaceRecord(self, <<>>, <<other>>, <<other>>),
      InterfaceRecord(self, <<>>, <<>>, <<other>>),
      UnionRecord(self, <<other>>) }

\* The graph family: the scalar tS, the type tX of any shape and the type tY
\* referring back to tX.
GraphSchemas ==
    {[types |-> <<Entry(tX, x), Entry(tY, y), Entry(tS, ScalarRecord(tS))>>,
      directives |-> GraphDirectives] : x \in Shapes(tX), y \in Partners(tY, tX)}

\* A field with an argument that has a default value, all parts present.
GoodField(n, owner) ==
    FieldRecord(n, <<ArgumentRecord(<<2>>, Some(IntValue(<<"1">>)), Named(tS))>>,
                Named(tS), owner)

\* The argument of GoodField with one part missing or malformed.
DefectArguments ==
    LET a == ArgumentRecord(<<2>>, Some(IntValue(<<"1">>)), Named(tS))
    IN  { [a EXCEPT !.name = None],
          [a EXCEPT !.type_ = None],
          [a EXCEPT !.value = Some(IntValue(<<"x">>))],
          [a EXCEPT !.value = Some([kind |-> "Float", float_value |-> Some(<<".">>)])],
          [a EXCEPT !.value = Some([kind |-> "String", string_value |-> None])] }

\* GoodField with one part missing or malformed.
DefectFields(owner) ==
    LET g == GoodField(<<1>>, owner)
    IN  { [g EXCEPT !.name = None],
          [g EXCEPT !.arguments = None],
          [g EXCEPT !.type_ = None],
          [g EXCEPT !.type_ = Some([kind |-> "NonNull", null |-> None])],
          [g EXCEPT !.type_ = Some([kind |-> "Named", named |-> None])],
          [g EXCEPT !.directives = None],
          [g EXCEPT !.directives =
                Some(<<[name |-> Some(<<1>>),
                        arguments |-> Some(<<[name |-> Some(<<1>>), value |-> None]>>)]>>)],
          [g EXCEPT !.parent_type = None] }
        \cup {[g EXCEPT !.arguments = Some(<<a>>)] : a \in DefectArguments}

\* The types of the defect family around the object tX: tY, an object with a
\* field of the type tX, and the scalar tS.
DefectTypes(x) ==
    << Entry(tX, x),
       Entry(tY, ObjectRecord(tY, <<FieldRecord(<<1>>, <<>>, Named(tX), tY)>>, <<>>)),
       Entry(tS, ScalarRecord(tS)) >>

\* The defect family: the object tX with a defective first field and a sound
\* second one; tX with a field whose parent type (tY) or whose type (tS) is a
\* defective record; a defective directive, or an index entry without a record.
DefectSchemas ==
    {[types |-> DefectTypes(ObjectRecord(tX, <<f, GoodField(<<2>>, tX)>>, <<tY>>)),
      directives |-> GraphDirectives] : f \in DefectFields(tX)}
    \cup
    {[types |-> << Entry(tX, ObjectRecord(tX, <<GoodField(<<1>>, tY)>>, <<>>)),
                   Entry(tY, ObjectRecord(tY, <<[GoodField(<<1>>, tY) EXCEPT !.name = None]>>,
                                          <<>>)),
                   Entry(tS, s) >>,
      directives |-> <<[key |-> tY, value |-> d]>>] :
        s \in { ScalarRecord(tS), [ScalarRecord(tS) EXCEPT !.name = None] },
        d \in { Some([DirectiveRecord(tY, <<>>) EXCEPT !.locations = None]),
                Some([DirectiveRecord(tY, <<>>) EXCEPT !.name = None]),
                None }}

\* The type references around the name n with at most d wrappers, NonNull or
\* List in any order.
RECURSIVE References(_, _)
References(n, d) ==
    IF d = 0 THEN {Named(n)}
    ELSE References(n, d - 1)
         \cup {NonNull(tr) : tr \in References(n, d - 1)}
         \cup {ListOf(tr) : tr \in References(n, d - 1)}

\* The reference family: the object tX with one field, the field and its
\* argument of the same type, any reference to the scalar tS.
ReferenceSchemas ==
    {[types |-> << Entry(tX, ObjectRecord(tX, <<FieldRecord(<<1>>,
                                  <<ArgumentRecord(<<2>>, None, tr)>>, tr, tX)>>, <<>>)),
                   Entry(tY, EnumRecord(tY)),
                   Entry(tS, ScalarRecord(tS)) >>,
      directives |-> GraphDirectives] : tr \in References(tS, MaxWrap)}

StringValue(text) == [kind |-> "String", string_value |-> Some(text)]
FloatValue(text) == [kind |-> "Float", float_value |-> Some(text)]

\* Float texts, each with the value it denotes: mant * 10^exp in lowest terms,
\* or an infinity, or not a number.
FloatLiteral(text, class, mant, exp) ==
    [text |-> text, value |-> [class |-> class, mant |-> mant, exp |-> exp]]
FloatLiterals ==
    { FloatLiteral(<<"1", ".", "5", "0">>, "finite", 15, 0 - 1),
      FloatLiteral(<<"1", ".", "5">>, "finite", 15, 0 - 1),
      FloatLiteral(<<"1", "5", "e", "-", "1">>, "finite", 15, 0 - 1),
      FloatLiteral(<<"1", "5", "0", "E", "-", "2">>, "finite", 15, 0 - 1),
      FloatLiteral(<<"-", "1", ".", "5", "0">>, "finite", 0 - 15, 0 - 1),
      FloatLiteral(<<"+", ".", "5">>, "finite", 5, 0 - 1),
      FloatLiteral(<<"5", ".">>, "finite", 5, 0),
      FloatLiteral(<<"1", "0">>, "finite", 1, 1),
      FloatLiteral(<<"1", "e", "+", "1">>, "finite", 1, 1),
      FloatLiteral(<<"0", ".", "0">>, "finite", 0, 0),
      FloatLiteral(<<"i", "n", "f">>, "inf", 1, 0),
      FloatLiteral(<<"-", "I", "n", "f", "i", "n", "i", "t", "y">>, "inf", 0 - 1, 0),
      FloatLiteral(<<"N", "a", "N">>, "nan", 0, 0) }

ListValue(values) == [kind |-> "List", list_value |-> Some([values |-> Some(values)])]
ObjectValue(fields) == [kind |-> "Object", object_value |-> Some([fields |-> Some(fields)])]
ObjectField(n, value) == [name |-> Some(n), value |-> Some(value)]

\* The sequences of at most k elements of the set S.
RECURSIVE SeqsUpTo(_, _)
SeqsUpTo(S, k) ==
    IF k = 0 THEN {<<>>}
    ELSE SeqsUpTo(S, k - 1)
         \cup {Append(q, x) : q \in {p \in SeqsUpTo(S, k - 1) : Len(p) = k - 1}, x \in S}

\* The default values of the value family: the lists and the objects of at most
\* MaxItems scalar values (an object may repeat a name), the Float texts, and a
\* list of both.
ConstValues ==
    LET leaves == {IntValue(<<"1">>), StringValue(<<"a">>)}
        pairs  == {ObjectField(<<1>>, IntValue(<<"1">>)), ObjectField(<<1>>, StringValue(<<"a">>)),
                   ObjectField(<<2>>, IntValue(<<"1">>))}
    IN  {ListValue(vs) : vs \in SeqsUpTo(leaves, MaxItems)}
        \cup {ObjectValue(fs) : fs \in SeqsUpTo(pairs, MaxItems)}
        \cup {FloatValue(l.text) : l \in FloatLiterals}
        \cup {ListValue(<<ListValue(<<StringValue(<<"a">>), IntValue(<<"1">>)>>),
                          ObjectValue(<<>>), ListValue(<<>>)>>)}

\* The value family: the object tX with one field whose argument has a default
\* value of ConstValues.
ValueSchemas ==
    {[types |-> << Entry(tX, ObjectRecord(tX, <<FieldRecord(<<1>>,
                                  <<ArgumentRecord(<<2>>, Some(v), Named(tS))>>,
                                  Named(tS), tX)>>, <<>>)),
                   Entry(tY, EnumRecord(tY)),
                   Entry(tS, ScalarRecord(tS)) >>,
      directives |-> GraphDirectives] : v \in ConstValues}

\* The 19 codes in the order of their declaration.
LocationCodes ==
    << FB("Query"), FB("Mutation"), FB("Subscription"), FB("Field"),
       FB("FragmentDefinition"), FB("FragmentSpread"), FB("InlineFragment"), FB("Schema"),
       FB("Scalar"), FB("Object"), FB("FieldDefinition"), FB("ArgumentDefinition"),
       FB("Interface"), FB("Union"), FB("Enum"), FB("EnumValue"),
       FB("InputObject"), FB("InputFieldDefinition"), FB("VariableDefinition") >>

\* The location family: the directive tY, without arguments, at one code
\* followed by all the codes.
LocationSchemas ==
    {[types |-> << Entry(tS, ScalarRecord(tS)) >>,
      directives |-> << Entry(tY, [DirectiveRecord(tY, <<>>)
                                      EXCEPT !.locations = Some(<<c>> \o LocationCodes)]) >>]
        : c \in FBDirectiveLocations}

\* -------------------------------------------------------------- the actions

\* A caller asks for a type: FlatBufferSchema::get_type(type_name).
GetType(n) ==
    /\ Idle /\ ret = NoRet
    /\ stack' = <<Frame("get_type", n)>>
    /\ ret' = NoRet
    /\ top' = [fn |-> "get_type", name |-> n, repeat |-> n = Watched /\ firstResult["get_type"] # NoRet]
    /\ storeBefore' = store
    /\ fieldFail' = None
    /\ UNCHANGED <<schema, store, fault, firstResult>>

\* A caller asks for a directive: FlatBufferSchema::get_directive(directive_name).
GetDirective(n) ==
    /\ Idle /\ ret = NoRet
    /\ stack' = <<Frame("get_directive", n)>>
    /\ ret' = NoRet
    /\ top' = [fn |-> "get_directive", name |-> n,
               repeat |-> n = Watched /\ firstResult["get_directive"] # NoRet]
    /\ storeBefore' = store
    /\ fieldFail' = None
    /\ UNCHANGED <<schema, store, fault, firstResult>>

\* The caller takes the value the top-level call returned.
Take ==
    /\ Returned
    /\ ret' = NoRet
    /\ top' = NoCall
    /\ storeBefore' = store
    /\ fieldFail' = None
    /\ UNCHANGED <<schema, store, stack, fault, firstResult>>

\* The body of get_type / get_directive: the cache check.
Entry_ ==
    /\ Running /\ Top.phase = "entry"
    /\ Apply(EntryEffect(store, Top, Table(schema, Top.fn)))

\* One turn of the loop of read_type / read_directive.
Search ==
    /\ Running /\ Top.phase = "search"
    /\ \E e \in SearchEffects(Top, Table(schema, Top.fn)) : Apply(e)

Decoding(ops) == Running /\ Top.phase = "decode" /\ ret = NoRet /\ Instr.op \in ops

Check == Decoding({"check", "unwrap"}) /\ Apply(CheckEffect(Top, Instr))

Pure == Decoding({"const", "dirvals", "enumvals", "locations"}) /\ Apply(PureEffect(Top, Instr))

Build == Decoding({"mk_arg", "mk_args"}) /\ Apply(BuildEffect(Top, Instr))

Resolve == Decoding({"resolve"}) /\ Apply(ResolveEffect(Top, Instr))

Resume ==
    /\ Running /\ Top.phase = "decode" /\ ret # NoRet
    /\ Apply(ResumeEffect(Top, Instr, ret))

AddType == Decoding({"add_type"}) /\ Apply(AddTypeEffect(store, Top, Instr))

AddField == Decoding({"add_field"}) /\ Apply(AddFieldEffect(store, Top, Instr))

Attach == Decoding({"attach"}) /\ Apply(AttachEffect(store, Top, Instr))

Edge == Decoding({"edge"}) /\ Apply(EdgeEffect(store, Top, Instr))

AddDirective == Decoding({"add_directive"}) /\ Apply(AddDirectiveEffect(store, Top, Instr))

Return == Decoding({"ret", "ret_directive"}) /\ Apply(ReturnEffect(store, Top, Instr))

\* ------------------------------------------------------- the specifications

InitWith(schemas) ==
    /\ schema \in schemas
    /\ store = EmptyStore
    /\ stack = <<>>
    /\ ret = NoRet
    /\ fault = "none"
    /\ top = NoCall
    /\ storeBefore = EmptyStore
    /\ firstResult = [k \in {"get_type", "get_directive"} |-> NoRet]
    /\ fieldFail = None

\* The steps a schema of scalars and of directives without arguments can take.
NextSearch ==
    \/ \E n \in Names : GetType(n)
    \/ \E n \in Names : GetDirective(n)
    \/ Take
    \/ Entry_
    \/ Search
    \/ Check
    \/ Pure
    \/ Build
    \/ AddType
    \/ AddDirective
    \/ Return

InitSearch == InitWith(SearchSchemas)

\* The session over the search family.
SpecSearch == InitSearch /\ [][NextSearch]_vars

Next ==
    \/ NextSearch
    \/ Resolve
    \/ Resume
    \/ AddField
    \/ Attach
    \/ Edge

Init == InitWith(GraphSchemas \cup DefectSchemas \cup ReferenceSchemas \cup ValueSchemas
                \cup LocationSchemas)

\* The session over the graph, defect, reference, value and location families.
Spec == Init /\ [][Next]_vars

\* ------------------------------------------------------------------ claims

Frames == {stack[k] : k \in 1..Len(stack)}

\* The index the call or frame c (fn, name) searches, and its size.
TableOf(c) == Table(schema, c.fn)
Size(c) == Len(TableOf(c))

\* The name of c is a key of its index; it is before all keys, after all keys,
\* or absent and strictly between the smallest and the largest key.
Present(c) == c.name \in Keys(TableOf(c))
BeforeAll(c) == \A k \in Keys(TableOf(c)) : KeyCompare(k, c.name) = "Greater"
AfterAll(c) == \A k \in Keys(TableOf(c)) : KeyCompare(k, c.name) = "Less"
Between(c) == ~Present(c) /\ ~BeforeAll(c) /\ ~AfterAll(c)

\* The frame has probed no entry outside its table, and `end` has not wrapped.
ProbesInside(f) == f.mid = -1 \/ (0 <= f.mid /\ f.mid < Size(f))
EndInside(f) == f.end <= Size(f)
SearchFaults == {"index_out_of_range", "subtract_overflow"}

\* A top-level call is in progress or has just returned.
Called == top.fn # "none"

\* C5: a top-level resolution of a name absent from the index (before all keys,
\* after all keys or between keys, the table of any size, 0 included) returns
\* absence and leaves the store as it was before the call.
C5_AbsentNameCleanMiss ==
    (Called /\ ~Present(top)) =>
        /\ fault = "none"
        /\ Returned => (ret = None /\ store = storeBefore)

\* C6: in the search of read_type and read_directive over a table of size N >= 0,
\* for any name, every probed index is in 0..N-1 and `end` is never decremented
\* below 0; no search ends in a fault.
C6_SearchStaysInTable ==
    /\ \A f \in Frames : ProbesInside(f) /\ EndInside(f)
    /\ fault \notin SearchFaults

\* C7: for a sorted table of size N >= 1 and a key present in it (first, last or
\* in the middle), every index probed is in 0..N-1, the search stops at the index
\* of exactly that key, and the call returns the entity decoded there.
C7_PresentKeyFound ==
    /\ \A f \in Frames :
          Present(f) =>
              /\ ProbesInside(f) /\ EndInside(f)
              /\ f.phase = "decode" => TableOf(f)[f.mid + 1].key = f.name
    /\ (Called /\ Present(top)) =>
          /\ fault = "none"
          /\ Returned => IsSome(ret)

\* The search has stopped at the first of three keys, after probing the middle one.
C7_Witness ==
    /\ stack # <<>> /\ Top.phase = "decode" /\ Size(Top) = 3
    /\ Top.mid = 0 /\ TableOf(Top)[1].key = Top.name

\* C8: for a name absent from the table but strictly between its smallest and
\* its largest key, the search returns a miss, every probed index is in 0..N-1
\* and `end` is never decremented below 0.
C8_AbsentBetweenMisses ==
    /\ \A f \in Frames :
          Between(f) => ProbesInside(f) /\ EndInside(f) /\ f.phase # "decode"
    /\ (Called /\ Between(top)) =>
          /\ fault = "none"
          /\ Returned => ret = None

\* A search for a name between the first and the second of three keys has
\* probed the table and returned the miss.
C8_Witness ==
    /\ Returned /\ Between(top) /\ ret = None /\ Size(top) = 3
    /\ KeyCompare(TableOf(top)[2].key, top.name) = "Greater"

\* The names a record refers to: as the type of an argument (of a field, or a
\* field of an input object), and as the type of a field.
ArgumentTargets(arguments) == {NamedTarget(a.type_.v).v : a \in Range(arguments)}
FieldArgumentTargets(r) ==
    CASE r.kind = "InputObject" -> ArgumentTargets(r.fields.v)
      [] r.kind \in {"Object", "Interface"} ->
            UNION {ArgumentTargets(f.arguments.v) : f \in Range(r.fields.v)}
      [] OTHER -> {}
FieldTargets(r) ==
    IF r.kind \in {"Object", "Interface"}
    THEN {NamedTarget(f.type_.v).v : f \in Range(r.fields.v)} ELSE {}

KindOf(sch, n) == RecordOf(sch, n).kind
InputKinds == {"Scalar", "Enum", "InputObject"}
OutputKinds == {"Scalar", "Enum", "Object", "Interface", "Union"}

\* The record is one of a GraphQL schema: arguments and input fields are of
\* input types, fields of output types, the listed interfaces are interfaces,
\* the listed implementing objects and members are objects.
WellKinded(sch, r) ==
    /\ \A n \in FieldArgumentTargets(r) : KindOf(sch, n) \in InputKinds
    /\ \A n \in FieldTargets(r) : KindOf(sch, n) \in OutputKinds
    /\ r.kind \in {"Object", "Interface"} =>
          \A n \in Range(r.interfaces.v) : KindOf(sch, n) = "Interface"
    /\ r.kind = "Interface" =>
          \A n \in Range(r.implementing_objects.v) : KindOf(sch, n) = "Object"
    /\ r.kind = "Union" => \A n \in Range(r.members.v) : KindOf(sch, n) = "Object"

\* A schema of the graph family (every part of every record present) whose
\* records are well kinded.
WellFormed(sch) ==
    /\ sch \in GraphSchemas
    /\ \A e \in Range(sch.types) : WellKinded(sch, e.value.v)
    /\ \A e \in Range(sch.directives) :
          \A n \in ArgumentTargets(e.value.v.arguments.v) : KindOf(sch, n) \in InputKinds

\* C1: for a name present in the index, two successive top-level resolutions,
\* with any other resolutions before or between them, both return the same
\* entity: each returns an entity, and the later one the entity the first one
\* returned.  (Stated for the well-formed schemas.)
C1_ResolvedTwiceSameIdentity ==
    (WellFormed(schema) /\ Called /\ Present(top)) =>
        /\ fault = "none"
        /\ Returned => IsSome(ret)
        /\ (Returned /\ top.repeat) => ret = firstResult[top.fn]

\* The object o lists the interface i, and i lists o as implementing object.
Implements(sch, o, i) ==
    /\ KindOf(sch, o) = "Object" /\ KindOf(sch, i) = "Interface"
    /\ i \in Range(RecordOf(sch, o).interfaces.v)
    /\ o \in Range(RecordOf(sch, i).implementing_objects.v)

\* The entity of the registered type n.
EntityOf(s, n) == s[Arena(s.type_map[n].v.kind)][s.type_map[n].v.id + 1]

\* The store has both types, i's id among o's interfaces and o's id among i's
\* implementing objects.
Linked(s, o, i) ==
    /\ has_type(s, o) /\ has_type(s, i)
    /\ s.type_map[i].v.id \in Range(EntityOf(s, o).interfaces)
    /\ s.type_map[o].v.id \in Range(EntityOf(s, i).implementing_objects)

\* C2: for an object O listing the interface I, I listing O as implementing
\* object, a top-level resolution of I or of O ends (it never faults and never
\* nests deeper than the three types), returns the entity, and leaves I's id in
\* O's interfaces and O's id in I's implementing objects: whichever is resolved
\* first, and after the other is resolved too.
C2_ObjectAndInterfaceLinked ==
    \A o \in {tX, tY}, i \in {tX, tY} :
        ( /\ WellFormed(schema) /\ Implements(schema, o, i)
          /\ top.fn = "get_type" /\ top.name \in {o, i} ) =>
            /\ fault = "none"
            /\ Len(stack) <= Len(schema.types)
            /\ Returned => (IsSome(ret) /\ Linked(store, o, i))

\* I = tX was resolved first (its field is the first of the store), then O = tY
\* was asked for and returned from the store, the two linked.
C2_Witness ==
    /\ WellFormed(schema) /\ Implements(schema, tY, tX)
    /\ Returned /\ top.fn = "get_type" /\ top.name = tY /\ store = storeBefore
    /\ Linked(store, tY, tX)
    /\ EntityOf(store, tX).fields = <<0>>

\* What the store holds for the name of the call or frame c.
Registered(s, c) ==
    IF c.fn = "get_type" THEN IsSome(s.type_map[c.name]) ELSE IsSome(s.directives[c.name])
StoredFor(s, c) == IF c.fn = "get_type" THEN s.type_map[c.name] ELSE s.directives[c.name]

\* The names of the entities the arenas of types hold, one per entity.
ArenaNames(s) ==
    s.scalars \o s.enums \o s.input_objects \o s.objects \o s.interfaces \o s.unions

C4_TerminatesWithinTypeCount ==
    /\ fault # "stack_overflow"
    /\ Len(stack) <= Len(schema.types)

\* The faults a decode can end in.
DecodeFaults == {"unwrap_none", "unwrap_err", "duplicate_type", "duplicate_directive"}

\* The stub of the owner of the failed field has the fields that came before it
\* and no edge.
StoppedAt(s, ff) ==
    /\ has_type(s, ff.owner)
    /\ Len(EntityOf(s, ff.owner).fields) = ff.index - 1
    /\ EntityOf(s, ff.owner).interfaces = <<>>

\* C9: when the decode of a field record of an object or interface yields
\* absence, the population of the owner stops there (no later field, no edge is
\* added) and the top-level get_type call returns absence.
C9_BrokenFieldFailsTheCall ==
    IsSome(fieldFail) =>
        /\ fault = "none"
        /\ StoppedAt(store, fieldFail.v)
        /\ Returned => ret = None

\* C10: a decode failure (a type reference whose target cannot be resolved,
\* unparseable Int or Float text, a missing argument name, a malformed record)
\* ends with absence at the top level: no call ends in a fault of the decoders.
C10_DecodeFailureIsAbsence == fault \notin DecodeFaults

\* The kinds registered as a stub before they are populated.
TwoPhase == {"Object", "Interface", "Union"}

\* The frame has inserted the stub of an object, interface or union and is
\* populating it.
Populating(f) ==
    /\ f.fn = "get_type" /\ f.phase = "decode" /\ f.new_id # -1
    /\ KindOf(schema, f.name) \in TwoPhase

\* The store has an object, interface or union of the name n that no call is
\* populating: its population has ended, completely or not.
Settled(n) ==
    /\ has_type(store, n) /\ store.type_map[n].v.kind \in TwoPhase
    /\ \A f \in Frames : ~(Populating(f) /\ f.name = n)

\* The populations never end in a fault.
C11_NoFaultWhilePopulating == \A f \in Frames : Populating(f) => fault = "none"

\* A population that ends before its last statement returns absence and leaves
\* the store, the stub in it, as it is.
C11_FailureReturnsAbsence ==
    [][ (Running /\ Populating(Top) /\ Len(stack') < Len(stack) /\ Instr.op # "ret") =>
            (ret' = None /\ store' = store) ]_vars

\* A stub whose population has ended is never removed and never changed.
C11_StubStays ==
    [][ \A n \in Names :
            Settled(n) => (has_type(store', n) /\ EntityOf(store', n) = EntityOf(store, n))
      ]_vars

\* A lookup of such a name is answered from the store.
C11_StubAnswers ==
    [][ (Running /\ Top.phase = "entry" /\ Top.fn = "get_type" /\ Settled(Top.name)) =>
            /\ stack' = SubSeq(stack, 1, Len(stack) - 1)
            /\ ret' = store.type_map[Top.name]
            /\ store' = store ]_vars

\* C11: when the population of an object, interface or union fails after its
\* stub was inserted, the call returns absence (it does not end in a fault), the
\* stub stays in the store as it is for the rest of the session, and every
\* later lookup of the name returns it from the store.
C11_FailedStubStays ==
    /\ []C11_NoFaultWhilePopulating
    /\ C11_FailureReturnsAbsence
    /\ C11_StubStays
    /\ C11_StubAnswers

\* tX is an object or interface whose first field has all its parts and at least
\* one argument, which has a name; FirstArgument is that argument.
HasFirstArgument(sch) ==
    /\ tX \in Keys(sch.types)
    /\ KindOf(sch, tX) \in {"Object", "Interface"}
    /\ IsSome(RecordOf(sch, tX).fields) /\ RecordOf(sch, tX).fields.v # <<>>
    /\ IsSome(RecordOf(sch, tX).fields.v[1].name)
    /\ IsSome(RecordOf(sch, tX).fields.v[1].arguments)
    /\ RecordOf(sch, tX).fields.v[1].arguments.v # <<>>
    /\ IsSome(RecordOf(sch, tX).fields.v[1].arguments.v[1].name)
FirstArgument(sch) == RecordOf(sch, tX).fields.v[1].arguments.v[1]

\* The default value of the first argument is missing; it is present and decodes
\* to absence (a part of its record is missing); it is present and its decode
\* panics (Int or Float text that does not parse).
DefaultMissing(sch) == HasFirstArgument(sch) /\ FirstArgument(sch).value = None
DefaultAbsent(sch) ==
    /\ HasFirstArgument(sch) /\ IsSome(FirstArgument(sch).value)
    /\ parse_const_value(FirstArgument(sch).value.v) = None
DefaultPanics(sch) ==
    /\ HasFirstArgument(sch) /\ IsSome(FirstArgument(sch).value)
    /\ parse_const_value(FirstArgument(sch).value.v) = Panic

\* A top-level get_type(tX) is in progress or has just returned; it began with
\* no tX in the store.
AskedX == top.fn = "get_type" /\ top.name = tX /\ ~has_type(storeBefore, tX)

\* The field the store holds as the first field of tX.
FirstField(s) == s.fields[EntityOf(s, tX).fields[1] + 1]

RECURSIVE EncodedWrappers(_)
EncodedWrappers(tr) ==
    CASE tr.kind = "Named" -> <<>>
      [] tr.kind = "NonNull" -> <<"NonNull">> \o EncodedWrappers(tr.null.v)
      [] tr.kind = "List" -> <<"List">> \o EncodedWrappers(tr.list.v)
RECURSIVE DecodedWrappers(_)
DecodedWrappers(t) == IF t.kind = "Named" THEN <<>> ELSE <<t.kind>> \o DecodedWrappers(t.of)
RECURSIVE NamedType(_)
NamedType(t) == IF t.kind = "Named" THEN t.type ELSE NamedType(t.of)

\* The TypeReference t is the encoded reference tr decoded: the same wrappers in
\* the same order around the type the store holds for the name tr ends in.
SameReference(s, tr, t) ==
    /\ DecodedWrappers(t) = EncodedWrappers(tr)
    /\ Some(NamedType(t)) = s.type_map[NamedTarget(tr).v]

\* tX is an object or interface with a complete first field that has an
\* argument, and the store holds tX with that field attached.
FirstFieldStored(sch, s) ==
    /\ HasFirstArgument(sch) /\ IsSome(RecordOf(sch, tX).fields.v[1].type_)
    /\ IsSome(FirstArgument(sch).type_)
    /\ has_type(s, tX) /\ EntityOf(s, tX).fields # <<>>

\* C13: a type reference built from Named, NonNull and List in any nesting
\* (NonNull directly inside NonNull included) is decoded by parse_type_reference
\* to the TypeReference with the same wrappers in the same order around the
\* resolved named type: so for the type of the first field of tX and for the
\* type of its argument, once the field is in the store.
C13_ReferenceKeepsWrappers ==
    FirstFieldStored(schema, store) =>
        /\ SameReference(store, RecordOf(schema, tX).fields.v[1].type_.v,
                         FirstField(store).type_)
        /\ SameReference(store, FirstArgument(schema).type_.v,
                         FirstField(store).arguments[1].type_)

\* The field of type List(NonNull(Named(tS))) is in the store, decoded to
\* List(NonNull(Named(tS))).
C13_Witness ==
    /\ FirstFieldStored(schema, store)
    /\ RecordOf(schema, tX).fields.v[1].type_.v = ListOf(NonNull(Named(tS)))
    /\ has_type(store, tS)
    /\ FirstField(store).type_ =
          [kind |-> "List",
           of |-> [kind |-> "NonNull",
                   of |-> [kind |-> "Named", type |-> store.type_map[tS].v]]]

\* The constant value dec is the encoded value enc decoded: a list has the
\* elements of enc, an object its (name, value) pairs, as many and position by
\* position; a scalar has its kind and value.
RECURSIVE SameValue(_, _)
SameValue(enc, dec) ==
    CASE enc.kind = "List" ->
            /\ dec.kind = "List"
            /\ Len(dec.items) = Len(enc.list_value.v.values.v)
            /\ \A k \in 1..Len(dec.items) :
                  SameValue(enc.list_value.v.values.v[k], dec.items[k])
      [] enc.kind = "Object" ->
            /\ dec.kind = "Object"
            /\ Len(dec.items) = Len(enc.object_value.v.fields.v)
            /\ \A k \in 1..Len(dec.items) :
                  /\ Some(dec.items[k].name) = enc.object_value.v.fields.v[k].name
                  /\ SameValue(enc.object_value.v.fields.v[k].value.v, dec.items[k].value)
      [] enc.kind = "String" -> dec.kind = "String" /\ Some(dec.value) = enc.string_value
      [] enc.kind = "Int" -> dec.kind = "Int" /\ Some(dec.value) = ParseInt(enc.int_value.v)
      [] OTHER -> dec.kind = enc.kind

\* The first field of tX is in the store and its argument has a default value
\* in the record.
FirstDefaultStored(sch, s) ==
    /\ HasFirstArgument(sch) /\ IsSome(FirstArgument(sch).value)
    /\ has_type(s, tX) /\ EntityOf(s, tX).fields # <<>>

\* C14: the decode of a constant value keeps the sequences as encoded: a List
\* value has its elements in the encoded order (none for the empty list), an
\* Object value its (name, value) pairs in the encoded order, repeated names
\* kept: the same length and the same entries position by position.  So for the
\* default value of the argument of the first field of tX, once it is stored.
C14_SequencesKept ==
    FirstDefaultStored(schema, store) =>
        /\ IsSome(FirstField(store).arguments[1].default_value)
        /\ SameValue(FirstArgument(schema).value.v,
                     FirstField(store).arguments[1].default_value.v)

\* An Object default value with the name <<1>> twice is stored with both pairs,
\* in the encoded order.
C14_Witness ==
    /\ FirstDefaultStored(schema, store)
    /\ FirstArgument(schema).value.v =
          ObjectValue(<<ObjectField(<<1>>, StringValue(<<"a">>)),
                        ObjectField(<<1>>, IntValue(<<"1">>))>>)
    /\ FirstField(store).arguments[1].default_value.v.items =
          << [name |-> <<1>>, value |-> [kind |-> "String", value |-> <<"a">>]],
             [name |-> <<1>>, value |-> [kind |-> "Int", value |-> 1]] >>

\* The logical locations: the closed enumeration DirectiveLocation.
DirectiveLocations == {c[2] : c \in FBDirectiveLocations}

\* The directive records of the index whose directive is in the store.
StoredDirectiveRecords ==
    {e.value.v : e \in {e \in Range(schema.directives) :
                         /\ IsSome(e.value) /\ IsSome(e.value.v.name)
                         /\ IsSome(e.value.v.locations)
                         /\ IsSome(schema_get_directive(store, e.value.v.name.v))}}

\* C15: get_mapped_location is total and injective over the 19 codes: every
\* code of a stored directive has one logical location of the enumeration at its
\* position, the same code the same location, and two distinct codes two
\* distinct locations.
C15_LocationsTotalInjective ==
    \A r \in StoredDirectiveRecords :
        LET enc == r.locations.v
            dec == schema_get_directive(store, r.name.v).v.locations
        IN  /\ Len(dec) = Len(enc)
            /\ \A j \in 1..Len(enc) : enc[j] \in FBDirectiveLocations => dec[j] \in DirectiveLocations
            /\ \A j, k \in 1..Len(enc) : (enc[j] = enc[k]) <=> (dec[j] = dec[k])

\* A directive at all the 19 codes is stored with 19 distinct locations.
C15_Witness ==
    \E r \in StoredDirectiveRecords :
        /\ Range(r.locations.v) = FBDirectiveLocations
        /\ Cardinality(Range(schema_get_directive(store, r.name.v).v.locations)) = 19

\* The Float literal that is the default value of the argument of the first
\* field of tX, stored.
StoredFloat(l) ==
    /\ FirstDefaultStored(schema, store)
    /\ FirstArgument(schema).value.v = FloatValue(l.text)

\* C16: a Float constant decodes to a node that keeps the encoded text
\* unchanged ("1.50" stays "1.50": no zero dropped, no exponent rewritten)
\* next to the parsed value, whose magnitude is that of the text (1.5 for
\* "1.50").
C16_FloatKeepsText ==
    \A l \in FloatLiterals :
        StoredFloat(l) =>
            LET node == FirstField(store).arguments[1].default_value.v
            IN  /\ node.kind = "Float"
                /\ node.source_value = l.text
                /\ node.value = l.value

\* The literal "1.50" is stored with the text "1.50" and the value 1.5.
C16_Witness ==
    /\ StoredFloat(FloatLiteral(<<"1", ".", "5", "0">>, "finite", 15, 0 - 1))
    /\ FirstField(store).arguments[1].default_value.v.source_value = <<"1", ".", "5", "0">>
    /\ FirstField(store).arguments[1].default_value.v.value = Finite([mant |-> 15, exp |-> 0 - 1])

\* The collections of fields and relations of an entity of the kind.
Relations(kind) ==
    CASE kind = "Object" -> {"fields", "interfaces"}
      [] kind = "Interface" -> {"fields", "interfaces", "implementing_objects"}
      [] kind = "Union" -> {"members"}
      [] OTHER -> {}

\* The store s has an object, interface or union of the name n.
HasTwoPhase(s, n) == has_type(s, n) /\ s.type_map[n].v.kind \in TwoPhase

\* A call that decodes an object, interface or union and has a nested call in
\* progress has inserted its entity.
C17_StubBeforeRecursion ==
    \A k \in 1..(Len(stack) - 1) :
        (/\ stack[k].fn = "get_type" /\ stack[k].phase = "decode"
         /\ KindOf(schema, stack[k].name) \in TwoPhase)
            => (stack[k].new_id # -1 /\ has_type(store, stack[k].name))

\* An object, interface or union enters the store with every collection empty.
C17_InsertedEmpty ==
    [][ \A n \in Names :
            (~has_type(store, n) /\ HasTwoPhase(store', n)) =>
                \A r \in Relations(store'.type_map[n].v.kind) : EntityOf(store', n)[r] = <<>>
      ]_vars

\* An entity in the store changes only in a step of the call that populates it.
C17_AttachedAfterwards ==
    [][ \A n \in Names :
            (HasTwoPhase(store, n) /\ EntityOf(store', n) # EntityOf(store, n)) =>
                (Running /\ Populating(Top) /\ Top.name = n)
      ]_vars

\* C17: an object, interface or union resolved for the first time is inserted
\* into the store with empty collections of fields and relations before any
\* resolution of another name starts (the type of a field or argument, a parent
\* type, an interface, an implementing object, a member); fields and edges are
\* attached to the stored stub only afterwards.
C17_StubFirst ==
    /\ []C17_StubBeforeRecursion
    /\ C17_InsertedEmpty
    /\ C17_AttachedAfterwards

\* The object tX is in the store with its field attached and no interface yet,
\* while its call resolves the interface tY.
C17_Witness ==
    /\ Len(stack) >= 2 /\ Populating(stack[1]) /\ stack[1].name = tX
    /\ stack[2].name = tY
    /\ store.type_map[tX].v.kind = "Object"
    /\ KindOf(schema, tY) = "Interface"
    /\ EntityOf(store, tX).fields # <<>>
    /\ EntityOf(store, tX).interfaces = <<>>

\* The statement the frame f is at.
InstrOf(f) == PlanOf(schema, f)[f.pc]

\* The call stack[k] resolves the parent type of a field of the type its caller
\* decodes, and the parent type is that type.
ParentOfOwner(k) ==
    /\ k >= 2 /\ k <= Len(stack)
    /\ stack[k - 1].phase = "decode"
    /\ InstrOf(stack[k - 1]).op = "resolve" /\ InstrOf(stack[k - 1]).mode = "opt"
    /\ stack[k].name = stack[k - 1].name

\* Such a call is at its entry, with no call of its own, and the store has its name.
C18_ParentInStore ==
    \A k \in 2..Len(stack) :
        ParentOfOwner(k) =>
            /\ k = Len(stack) /\ stack[k].phase = "entry"
            /\ has_type(store, stack[k].name)

\* Its one step returns the stub of the owner to the caller.
C18_ParentReturned ==
    [][ (Running /\ ParentOfOwner(Len(stack))) =>
            /\ stack' = SubSeq(stack, 1, Len(stack) - 1)
            /\ ret' = Some(store.type_map[Top.name].v)
            /\ store' = store
      ]_vars

\* C18: while the fields of an object or interface are decoded, the resolution
\* of the parent type of a field whose parent-type record names the owner is
\* answered from the store (the stub of the owner) and starts no search of the
\* index and no decode.
C18_ParentFromCache == []C18_ParentInStore /\ C18_ParentReturned

\* The parent type of a field of the interface tX is being resolved and is tX,
\* a stub without fields.
C18_Witness ==
    /\ ParentOfOwner(Len(stack)) /\ Top.name = tX
    /\ store.type_map[tX].v.kind = "Interface"
    /\ EntityOf(store, tX).fields = <<>>

\* The sequence in o, none if o is absent; the name a type reference asks for.
PartsOf(o) == IF IsSome(o) THEN Range(o.v) ELSE {}
TargetOf(o) ==
    IF IsSome(o) /\ IsSome(NamedTarget(o.v)) THEN {NamedTarget(o.v).v} ELSE {}

\* The names the decode of the arguments, of a field, of a record follows.
ArgumentReferences(arguments) == UNION {TargetOf(a.type_) : a \in PartsOf(arguments)}
FieldReferences(f) ==
    ArgumentReferences(f.arguments) \cup TargetOf(f.type_) \cup
    (IF IsSome(f.parent_type) THEN {f.parent_type.v} ELSE {})
RecordReferences(r) ==
    CASE r.kind = "InputObject" -> ArgumentReferences(r.fields)
      [] r.kind = "Object" ->
            UNION {FieldReferences(f) : f \in PartsOf(r.fields)} \cup PartsOf(r.interfaces)
      [] r.kind = "Interface" ->
            UNION {FieldReferences(f) : f \in PartsOf(r.fields)} \cup PartsOf(r.interfaces)
            \cup PartsOf(r.implementing_objects)
      [] r.kind = "Union" -> PartsOf(r.members)
      [] OTHER -> {}

\* The names reachable from the names of S through the references of the records.
RECURSIVE Closure(_)
Closure(S) ==
    LET more == S \cup UNION {RecordReferences(e.value.v) :
                                e \in {e \in Range(schema.types) : e.key \in S /\ IsSome(e.value)}}
    IN  IF more = S THEN S ELSE Closure(more)

\* The types the top-level call c asked for or can reach.
ReachableFrom(c) ==
    IF c.fn = "get_type" THEN Closure({c.name})
    ELSE Closure(UNION {ArgumentReferences(e.value.v.arguments) :
                          e \in {e \in Range(schema.directives) :
                                   e.key = c.name /\ IsSome(e.value)}})

\* C19: the store holds only types and directives that a top-level call asked
\* for or that are reachable from a name asked for through the references the
\* decoders follow (type of a field, of an argument, parent type of a field,
\* interface, parent interface, implementing object, member): every step that
\* puts a name into the store puts a type reachable from the name of the call
\* in progress, or the directive that call asked for.
C19_OnlyRequestedOrReachable ==
    [][ \A n \in Names :
            /\ (has_type(store', n) /\ ~has_type(store, n)) =>
                  (top.fn # "none" /\ n \in ReachableFrom(top))
            /\ (IsSome(schema_get_directive(store', n)) /\ ~IsSome(schema_get_directive(store, n)))
                  => (top.fn = "get_directive" /\ top.name = n)
      ]_vars

\* After get_type(tX) has returned the object tX with the scalar tS it refers
\* to, the store has tX and tS and not the type tY of the index, which tX does
\* not reach.
C19_Witness ==
    /\ Returned /\ top.fn = "get_type" /\ top.name = tX /\ IsSome(ret)
    /\ storeBefore = EmptyStore
    /\ store.type_map[tX].v.kind = "Object"
    /\ has_type(store, tS) /\ ~has_type(store, tY)
    /\ tY \in Keys(schema.types)

\* The list in o, empty if o is absent.
ListIn(o) == IF IsSome(o) THEN o.v ELSE <<>>

\* The ids in the collection ids of the store s are those of the types the
\* names list, all of the kind, in the order of the list.
SameEdges(s, ids, names, kind) ==
    /\ Len(ids) = Len(names)
    /\ \A k \in 1..Len(ids) :
          /\ has_type(s, names[k])
          /\ s.type_map[names[k]].v = [kind |-> kind, id |-> ids[k]]

\* The fields of the ids are those the records list, in their order.
SameFields(s, ids, records) ==
    /\ Len(ids) = Len(records)
    /\ \A k \in 1..Len(ids) : Some(s.fields[ids[k] + 1].name) = records[k].name

\* The object, interface or union n of the store s is fully populated: its
\* fields, interfaces, implementing objects and members are those its record lists.
Complete(s, n) ==
    LET r == RecordOf(schema, n)
        e == EntityOf(s, n)
    IN  CASE r.kind = "Object" ->
                /\ SameFields(s, e.fields, ListIn(r.fields))
                /\ SameEdges(s, e.interfaces, ListIn(r.interfaces), "Interface")
          [] r.kind = "Interface" ->
                /\ SameFields(s, e.fields, ListIn(r.fields))
                /\ SameEdges(s, e.interfaces, ListIn(r.interfaces), "Interface")
                /\ SameEdges(s, e.implementing_objects, ListIn(r.implementing_objects),
                             "Object")
          [] r.kind = "Union" -> SameEdges(s, e.members, ListIn(r.members), "Object")

\* C20: whenever no call is in progress and a top-level get_type has just
\* returned an entity, the objects, interfaces and unions of the store are fully
\* populated, with the fields, interfaces, implementing objects and members their
\* records list: the call that reported success has left no incomplete stub
\* behind.  (Stated for the entities the call has put into the store.)
C20_SuccessLeavesNoStub ==
    (Returned /\ top.fn = "get_type" /\ IsSome(ret)) =>
        \A n \in Names :
            (HasTwoPhase(store, n) /\ ~has_type(storeBefore, n)) => Complete(store, n)

\* The fields of the ids are the first of those the records list, in their
\* order, no field twice.
FirstFields(s, ids, records) ==
    /\ Len(ids) <= Len(records)
    /\ \A k \in 1..Len(ids) : Some(s.fields[ids[k] + 1].name) = records[k].name
    /\ \A j, k \in 1..Len(ids) : ids[j] = ids[k] => j = k

\* The ids are those of the first of the types the names list, of the kind, in
\* the order of the list.
FirstEdges(s, ids, names, kind) ==
    /\ Len(ids) <= Len(names)
    /\ \A k \in 1..Len(ids) :
          /\ has_type(s, names[k])
          /\ s.type_map[names[k]].v = [kind |-> kind, id |-> ids[k]]

\* The object, interface or union n of the store s has, in each collection,
\* one entry for each of the first entries of the list of its record and no more.
OncePerEntry(s, n) ==
    LET r == RecordOf(schema, n)
        e == EntityOf(s, n)
    IN  CASE r.kind = "Object" ->
                /\ FirstFields(s, e.fields, ListIn(r.fields))
                /\ FirstEdges(s, e.interfaces, ListIn(r.interfaces), "Interface")
          [] r.kind = "Interface" ->
                /\ FirstFields(s, e.fields, ListIn(r.fields))
                /\ FirstEdges(s, e.interfaces, ListIn(r.interfaces), "Interface")
                /\ FirstEdges(s, e.implementing_objects, ListIn(r.implementing_objects),
                              "Object")
          [] r.kind = "Union" -> FirstEdges(s, e.members, ListIn(r.members), "Object")

\* A field of the arena of fields is attached to one owner at most.
OneOwner(s) ==
    \A m, n \in Names :
        (HasTwoPhase(s, m) /\ HasTwoPhase(s, n) /\ m # n
         /\ s.type_map[m].v.kind # "Union" /\ s.type_map[n].v.kind # "Union")
            => Range(EntityOf(s, m).fields) \cap Range(EntityOf(s, n).fields) = {}

\* C21: over any sequence of top-level and re-entrant resolutions each field
\* and each edge (object to interface, interface to parent interface, interface
\* to implementing object, union to member) is added to its owner at most once
\* for each entry of the list of the owner's record: a name resolved again, or
\* reached again through a back-reference, gets no field and no edge a second
\* time.
C21_AddedOncePerEntry ==
    /\ \A n \in Names : HasTwoPhase(store, n) => OncePerEntry(store, n)
    /\ OneOwner(store)

\* The object tX, populated by an earlier call with its field and its
\* interface tY, has been asked for again and returned; tY has tX, reached back
\* from it, as its one implementing object.
C21_Witness ==
    /\ Returned /\ top.fn = "get_type" /\ top.name = tX /\ IsSome(ret)
    /\ has_type(storeBefore, tX)
    /\ store.type_map[tX].v.kind = "Object"
    /\ Len(EntityOf(store, tX).fields) = 1
    /\ Len(EntityOf(store, tX).interfaces) = 1
    /\ HasTwoPhase(store, tY) /\ store.type_map[tY].v.kind = "Interface"
    /\ EntityOf(store, tY).implementing_objects = <<store.type_map[tX].v.id>>

====
